---- MODULE Spec2Model ----
(***************************************************************************)
(* graft-hook: the webhook deployment dispatcher of src/main.rs.           *)
(*                                                                         *)
(* One task per inbound POST /webhook.  A task runs handle_deploy, which   *)
(* suspends only while it awaits an external command (sh -c ...).  The     *)
(* model has one action per stretch of code between two await points.      *)
(***************************************************************************)
EXTENDS Naturals, Sequences, FiniteSets, TLC

(* Number of requests the server is given (each handled by its own task). *)
MaxReqs == 2

Reqs == 1..MaxReqs

(* Rust's Option<T>: None is the empty tuple, Some(v) a one-element tuple. *)
None == <<>>

Some(v) == <<v>>

Opt(S) == {None} \cup {Some(v) : v \in S}

(* Option::or_else(|| alt) *)
OrElse(o, alt) == IF o # None THEN o ELSE alt

(* Option::unwrap_or_else(|| d) *)
UnwrapOr(o, d) == IF o # None THEN o[1] ELSE d

----------------------------------------------------------------------------
(* Inputs *)

(* The project names requests may carry; "ghost" is in no configuration. *)
ProjectNames == {"blog", "shop", "ghost"}

(* The values a request's "type" may carry; "rollback" is not a mode. *)
TypeValues == {"repo", "image", "rollback"}

(* The JSON bodies posted to /webhook: every field present or absent. *)
Bodies ==
  [project : Opt(ProjectNames),
   repository : Opt({"org/app"}),
   githubtoken : Opt({"tok"}),
   user : Opt({"alice"}),
   type : Opt(TypeValues),
   registry : Opt({"docker.io"})]

(* The process environment after dotenv: each default set or unset. *)
Envs == [DOCKER_USER : Opt({"envuser"}), DOCKER_TOKEN : Opt({"envtok"})]

(* What a compose run may leave on its standard error. *)
Stderrs == {"", "no configuration file provided: not found"}

(* projects.json as loaded by main: project name -> deployment path. *)
ConfigFile == [n \in {"blog", "shop"} |-> IF n = "blog" THEN "/srv/blog" ELSE "/srv/shop"]

----------------------------------------------------------------------------
(* State *)

VARIABLES
  state,  \* AppState behind the Arc: [config |-> ConfigFile]
  env,    \* the process environment read by env::var
  reqs    \* per request: the task running handle_deploy for it

vars == <<state, env, reqs>>

(* A task before its request has arrived. *)
NewTask ==
  [pc |-> "idle", body |-> None, path |-> None, u |-> None, t |-> None,
   registry |-> None, cmds |-> <<>>, response |-> None]

Init ==
  /\ state = [config |-> ConfigFile]
  /\ env \in Envs
  /\ reqs = [r \in Reqs |-> NewTask]

----------------------------------------------------------------------------
(* WebhookPayload and the Json extractor *)

(* A variant of the struct in which user is a String. *)
WebhookPayloadStrict(b) ==
  IF b.project = None \/ b.repository = None \/ b.type = None \/ b.user = None
    THEN None
    ELSE Some([project |-> b.project[1], repository |-> b.repository[1],
               githubtoken |-> b.githubtoken, user |-> b.user,
               type |-> b.type[1], registry |-> b.registry])

(* #[derive(Deserialize)] struct WebhookPayload: a String field must be   *)
(* present, an Option<String> field may be missing (it becomes None).     *)
WebhookPayload(b) ==
  IF b.project = None \/ b.repository = None \/ b.type = None
    THEN None
    ELSE Some([project |-> b.project[1], repository |-> b.repository[1],
               githubtoken |-> b.githubtoken, user |-> b.user,
               type |-> b.type[1], registry |-> b.registry])

----------------------------------------------------------------------------
(* External commands: tokio::process::Command::new("sh").arg("-c")...      *)

(* The command a task issues; status is how it went so far. *)
Cmd(op, path, user, token, registry) ==
  [op |-> op, path |-> path, user |-> user, token |-> token,
   registry |-> registry, status |-> "running", stderr |-> None]

(* .status() / .output(): the process is spawned when the call is made;   *)
(* a spawn failure is the Err the await returns.                          *)
Spawn(rq, cmd, spawned) ==
  [rq EXCEPT !.cmds = Append(@, [cmd EXCEPT !.status =
                                   IF spawned THEN "running" ELSE "spawn_error"])]

(* The awaited process exits: Ok(status), success or not. *)
Exited(rq, ok) ==
  [rq EXCEPT !.cmds[Len(rq.cmds)].status = IF ok THEN "exit_ok" ELSE "exit_fail"]

(* .output() collects the child's standard error into out.stderr. *)
Captured(rq, err) == [rq EXCEPT !.cmds[Len(rq.cmds)].stderr = Some(err)]

(* What the await returned, as the match arms see it. *)
Awaited(rq) ==
  LET s == rq.cmds[Len(rq.cmds)].status
  IN  IF s = "spawn_error" THEN "Err" ELSE IF s = "exit_ok" THEN "Ok" ELSE "Fail"

(* return "<message>" *)
Return(rq, msg) == [rq EXCEPT !.pc = "done", !.response = Some(msg)]

(* The format!(...) string of command c: its literal pieces and, between *)
(* them, the values interpolated into it.                                 *)
ShellScript(c) ==
  IF c.op = "git_pull"
    THEN <<"cd ", c.path[1],
           " && git -c credential.helper= -c \"credential.helper=!f() { echo username=",
           c.user[1], "; echo password=", c.token[1], "; }; f\" pull origin main">>
  ELSE IF c.op = "compose_build"
    THEN <<"cd ", c.path[1], " && docker compose up -d --build">>
  ELSE IF c.op = "docker_login"
    THEN <<"echo ", c.token[1], " | docker login ", c.registry[1], " -u ",
           c.user[1], " --password-stdin">>
  ELSE <<"cd ", c.path[1], " && docker compose up -d --pull always">>

(* Command::new("sh").arg("-c").arg(script): the script is parsed by sh. *)
Argv(c) == <<"sh", "-c", ShellScript(c)>>

----------------------------------------------------------------------------
(* deploy_git: git pull, then docker compose up -d --build *)

(* A variant in which the environment default takes precedence. *)
git_user_env_first(payload, e) == OrElse(e.DOCKER_USER, payload.user)

(* payload.<field>.clone().or_else(|| env::var("DOCKER_<FIELD>").ok()) *)
git_token(payload, e) == OrElse(payload.githubtoken, e.DOCKER_TOKEN)

git_user(payload, e) == OrElse(payload.user, e.DOCKER_USER)

(* A variant of the match that only asks for the token. *)
git_credentials_token_only(token, user) == token # None

(* match (token, user) { (Some(t), Some(u)) => ..., _ => return } *)
git_credentials(token, user) == token # None /\ user # None

(* A variant of the match that lets Err through. *)
pull_ok_unless_exit_fail(res) == res # "Fail"

(* match pull_status { Ok(status) if status.success() => ..., _ => return } *)
pull_ok(res) == res = "Ok"

(* A retrying variant of the failure arm: issue the pull again. *)
git_pull_retry(rq) ==
  [Spawn(rq, [rq.cmds[Len(rq.cmds)] EXCEPT !.status = "running"], TRUE)
     EXCEPT !.pc = "pull"]

(* The `_` arm of the match on pull_status. *)
git_pull_failed(rq) == Return(rq, "Git Pull Failed")

(* A variant of the last match with the Err arm folded into the failure arm. *)
build_message_err_folded(res) ==
  IF res = "Ok" THEN "Success: Repo Pulled and Containers Rebuilt"
  ELSE "Git pull success, but Compose build/up failed"

(* match output { Ok(out) if success => .., Ok(out) => .., Err(e) => .. } *)
build_message(res) ==
  IF res = "Ok" THEN "Success: Repo Pulled and Containers Rebuilt"
  ELSE IF res = "Fail" THEN "Git pull success, but Compose build/up failed"
  ELSE "Command execution error"

(* A variant that answers a failed build with what compose printed. *)
build_result_echo_stderr(rq) ==
  IF Awaited(rq) = "Fail" THEN Return(rq, rq.cmds[Len(rq.cmds)].stderr[1])
  ELSE Return(rq, build_message(Awaited(rq)))

build_result(rq) == Return(rq, build_message(Awaited(rq)))

(* 3. Trigger Docker Compose Build and Up, up to its await. *)
git_rebuild(rq, spawned) ==
  LET rq1 == Spawn(rq, Cmd("compose_build", rq.path, None, None, None), spawned)
  IN  IF spawned THEN [rq1 EXCEPT !.pc = "build"] ELSE build_result(rq1)

(* From the pull's await returning to the next await or return. *)
pull_result(rq, spawned) ==
  IF pull_ok(Awaited(rq)) THEN git_rebuild(rq, spawned) ELSE git_pull_failed(rq)

(* A variant that does not await the pull before it starts compose. *)
deploy_git_no_await(rq, payload, e, sp) ==
  LET token == OrElse(payload.githubtoken, e.DOCKER_TOKEN)
      user == OrElse(payload.user, e.DOCKER_USER)
  IN  IF token = None \/ user = None
        THEN Return(rq, "Missing Git Credentials")
        ELSE LET rq1 == Spawn([rq EXCEPT !.t = token, !.u = user],
                              Cmd("git_pull", rq.path, user, token, None), sp[1])
             IN  IF sp[1] THEN git_rebuild(rq1, sp[2]) ELSE pull_result(rq1, sp[2])

(* deploy_git from its entry to its first await or return.  sp[1], sp[2]: *)
(* whether the first and the second command, if issued, can be spawned.   *)
deploy_git(rq, payload, e, sp) ==
  LET token == git_token(payload, e)
      user == git_user(payload, e)
  IN  IF ~git_credentials(token, user)
        THEN Return(rq, "Missing Git Credentials")
        ELSE LET rq1 == Spawn([rq EXCEPT !.t = token, !.u = user],
                              Cmd("git_pull", rq.path, user, token, None), sp[1])
             IN  IF sp[1] THEN [rq1 EXCEPT !.pc = "pull"] ELSE pull_result(rq1, sp[2])

----------------------------------------------------------------------------
(* deploy_docker: docker login, then docker compose up -d --pull always *)

docker_token(payload, e) == OrElse(payload.githubtoken, e.DOCKER_TOKEN)

docker_user(payload, e) == OrElse(payload.user, e.DOCKER_USER)

(* A variant with another default host. *)
docker_registry_dockerhub(payload) == UnwrapOr(payload.registry, "docker.io")

(* payload.registry.clone().unwrap_or_else(|| "ghcr.io".to_string()) *)
docker_registry(payload) == UnwrapOr(payload.registry, "ghcr.io")

docker_credentials(token, user) == token # None /\ user # None

(* A variant that ignores the login's result. *)
login_ok_always(res) == TRUE

(* match login_status { Ok(status) if status.success() => ..., _ => return } *)
login_ok(res) == res = "Ok"

docker_login_failed(rq) == Return(rq, "Docker Login Failed")

(* A variant whose first arm lacks the guard on out.status.success(). *)
up_message_unguarded(res) ==
  IF res \in {"Ok", "Fail"} THEN "Success: Images Pulled and Containers Restarted"
  ELSE "Command execution error"

(* match output { Ok(out) if success => .., Ok(out) => .., Err(e) => .. } *)
up_message(res) ==
  IF res = "Ok" THEN "Success: Images Pulled and Containers Restarted"
  ELSE IF res = "Fail" THEN "Docker Compose pull/up failed"
  ELSE "Command execution error"

up_result(rq) == Return(rq, up_message(Awaited(rq)))

(* 3. Trigger Docker Compose with --pull always, up to its await. *)
docker_up(rq, spawned) ==
  LET rq1 == Spawn(rq, Cmd("compose_pull", rq.path, None, None, None), spawned)
  IN  IF spawned THEN [rq1 EXCEPT !.pc = "up"] ELSE up_result(rq1)

login_result(rq, spawned) ==
  IF login_ok(Awaited(rq)) THEN docker_up(rq, spawned) ELSE docker_login_failed(rq)

deploy_docker(rq, payload, e, sp) ==
  LET token == docker_token(payload, e)
      user == docker_user(payload, e)
      registry == docker_registry(payload)
  IN  IF ~docker_credentials(token, user)
        THEN Return(rq, "Missing Docker Credentials")
        ELSE LET rq1 == Spawn([rq EXCEPT !.t = token, !.u = user,
                                         !.registry = Some(registry)],
                              Cmd("docker_login", None, user, token, Some(registry)),
                              sp[1])
             IN  IF sp[1] THEN [rq1 EXCEPT !.pc = "login"] ELSE login_result(rq1, sp[2])

----------------------------------------------------------------------------
(* handle_deploy *)

(* HashMap::get *)
Get(config, name) == IF name \in DOMAIN config THEN Some(config[name]) ELSE None

(* A lookup that falls back to the first configured project. *)
lookup_with_fallback(config, payload) ==
  IF payload.project \in DOMAIN config THEN Some(config[payload.project])
  ELSE Some(config["blog"])

(* 1. Lookup Project Path: state.config.get(&payload.project) *)
lookup(config, payload) == Get(config, payload.project)

(* A mode match whose catch-all arm deploys images. *)
select_mode_default_image(type) == IF type = "repo" THEN "repo" ELSE "image"

(* 2. Select Deployment Mode: match payload.r#type.as_str() *)
select_mode(type) ==
  IF type = "repo" THEN "repo" ELSE IF type = "image" THEN "image" ELSE "_"

(* handle_deploy from its entry to the first await or return. *)
handle_deploy(rq, st, payload, e, sp) ==
  LET project_path == lookup(st.config, payload)
  IN  IF project_path = None
        THEN Return(rq, "Project not found in config")
        ELSE LET rq1 == [rq EXCEPT !.path = project_path]
                 mode == select_mode(payload.type)
             IN  IF mode = "repo" THEN deploy_git(rq1, payload, e, sp)
                 ELSE IF mode = "image" THEN deploy_docker(rq1, payload, e, sp)
                 ELSE Return(rq1, "Invalid Type")

----------------------------------------------------------------------------
(* Actions: one per stretch of a task between two await points *)

(* A variant that registers a project it does not know under a default   *)
(* path before handling the request.                                      *)
RequestAutoRegister(r) ==
  /\ reqs[r].pc = "idle"
  /\ \E b \in Bodies, sp \in BOOLEAN \X BOOLEAN :
       LET payload == WebhookPayload(b)
           rq == [reqs[r] EXCEPT !.body = Some(b)]
           known == IF payload = None THEN TRUE
                    ELSE payload[1].project \in DOMAIN state.config
           config == IF known THEN state.config
                     ELSE [n \in DOMAIN state.config \cup {payload[1].project} |->
                             IF n \in DOMAIN state.config THEN state.config[n]
                             ELSE "/srv/default"]
       IN  /\ state' = [state EXCEPT !.config = config]
           /\ reqs' = [reqs EXCEPT ![r] =
                         IF payload = None THEN [rq EXCEPT !.pc = "rejected"]
                         ELSE handle_deploy(rq, state', payload[1], env, sp)]
  /\ UNCHANGED env

(* A variant that remembers what it deployed: a project another request  *)
(* has already deployed successfully is not deployed again.               *)
RequestSkipDeployed(r) ==
  /\ reqs[r].pc = "idle"
  /\ \E b \in Bodies, sp \in BOOLEAN \X BOOLEAN :
       LET payload == WebhookPayload(b)
           rq == [reqs[r] EXCEPT !.body = Some(b)]
           deployed == \E o \in Reqs \ {r} :
                         /\ reqs[o].pc = "done"
                         /\ reqs[o].body[1].project = b.project
                         /\ Len(reqs[o].cmds) = 2
                         /\ reqs[o].cmds[2].status = "exit_ok"
       IN  reqs' = [reqs EXCEPT ![r] =
                      IF payload = None THEN [rq EXCEPT !.pc = "rejected"]
                      ELSE IF deployed THEN Return(rq, "Already up to date")
                      ELSE handle_deploy(rq, state, payload[1], env, sp)]
  /\ UNCHANGED <<state, env>>

(* A POST /webhook arrives: the Json extractor deserializes the body and, *)
(* if that succeeds, handle_deploy runs to its first await or return.     *)
Request(r) ==
  /\ reqs[r].pc = "idle"
  /\ \E b \in Bodies, sp \in BOOLEAN \X BOOLEAN :
       LET payload == WebhookPayload(b)
           rq == [reqs[r] EXCEPT !.body = Some(b)]
       IN  reqs' = [reqs EXCEPT ![r] =
                      IF payload = None THEN [rq EXCEPT !.pc = "rejected"]
                      ELSE handle_deploy(rq, state, payload[1], env, sp)]
  /\ UNCHANGED <<state, env>>

(* A variant that holds a per-project lock: deploy_git resumes only while *)
(* no other task runs compose in the same project path.                   *)
PullExitLocked(r) ==
  /\ reqs[r].pc = "pull"
  /\ \A o \in Reqs \ {r} :
       ~(reqs[o].pc \in {"build", "up"} /\ reqs[o].path = reqs[r].path)
  /\ \E ok \in BOOLEAN, spawned \in BOOLEAN :
       reqs' = [reqs EXCEPT ![r] = pull_result(Exited(@, ok), spawned)]
  /\ UNCHANGED <<state, env>>

(* git pull exits; deploy_git resumes. *)
PullExit(r) ==
  /\ reqs[r].pc = "pull"
  /\ \E ok \in BOOLEAN, spawned \in BOOLEAN :
       reqs' = [reqs EXCEPT ![r] = pull_result(Exited(@, ok), spawned)]
  /\ UNCHANGED <<state, env>>

(* docker compose up -d --build exits; deploy_git returns. *)
BuildExit(r) ==
  /\ reqs[r].pc = "build"
  /\ \E ok \in BOOLEAN, err \in Stderrs :
       reqs' = [reqs EXCEPT ![r] = build_result(Captured(Exited(@, ok), err))]
  /\ UNCHANGED <<state, env>>

(* docker login exits; deploy_docker resumes. *)
LoginExit(r) ==
  /\ reqs[r].pc = "login"
  /\ \E ok \in BOOLEAN, spawned \in BOOLEAN :
       reqs' = [reqs EXCEPT ![r] = login_result(Exited(@, ok), spawned)]
  /\ UNCHANGED <<state, env>>

(* A variant in which a failed compose takes the server down: the tasks  *)
(* in flight are dropped and no further request is served.                *)
UpExitCrash(r) ==
  /\ reqs[r].pc = "up"
  /\ \E ok \in BOOLEAN, err \in Stderrs :
       reqs' = [o \in Reqs |->
                  IF o = r THEN up_result(Captured(Exited(reqs[r], ok), err))
                  ELSE IF ok THEN reqs[o]
                  ELSE [reqs[o] EXCEPT !.pc = "rejected"]]
  /\ UNCHANGED <<state, env>>

(* docker compose up -d --pull always exits; deploy_docker returns. *)
UpExit(r) ==
  /\ reqs[r].pc = "up"
  /\ \E ok \in BOOLEAN, err \in Stderrs :
       reqs' = [reqs EXCEPT ![r] = up_result(Captured(Exited(@, ok), err))]
  /\ UNCHANGED <<state, env>>

(* The command a task awaits turns out never to exit.  .status().await   *)
(* and .output().await wait for the child without a time limit, so the   *)
(* task stays suspended at that await ("hung") and is never resumed.     *)
Hang(r) ==
  /\ reqs[r].pc \in {"pull", "build", "login", "up"}
  /\ reqs' = [reqs EXCEPT ![r].pc = "hung"]
  /\ UNCHANGED <<state, env>>

(* Any step of request r's task. *)
TaskStep(r) ==
  \/ Request(r)
  \/ PullExit(r)
  \/ BuildExit(r)
  \/ LoginExit(r)
  \/ UpExit(r)
  \/ Hang(r)

Next == \E r \in Reqs : TaskStep(r)

Spec == Init /\ [][Next]_vars

----------------------------------------------------------------------------
(* Vocabulary of the properties *)

TypeOK ==
  /\ state = [config |-> ConfigFile]
  /\ env \in Envs
  /\ \A r \in Reqs :
       reqs[r].pc \in {"idle", "rejected", "pull", "build", "login", "up", "hung", "done"}

(* The request's body and, once the extractor accepted it, its payload. *)
BodyOf(r) == reqs[r].body[1]

(* handle_deploy was entered for request r. *)
Handled(r) == reqs[r].pc \notin {"idle", "rejected"}

Registered(r) == BodyOf(r).project[1] \in DOMAIN state.config

Finished(r) == reqs[r].pc = "done"

ResponseIs(r, msg) == reqs[r].pc = "done" /\ reqs[r].response = Some(msg)

CmdOps(r) == {reqs[r].cmds[i].op : i \in 1..Len(reqs[r].cmds)}

(* The indices at which request r issued command op. *)
Issued(r, op) == {i \in 1..Len(reqs[r].cmds) : reqs[r].cmds[i].op = op}

Failed(c) == c.status \in {"spawn_error", "exit_fail"}

----------------------------------------------------------------------------
(* C1: in the repo strategy, a request whose git pull failed (it could not *)
(* be spawned, or it exited non-zero) has returned "Git Pull Failed" and   *)
(* never issued docker compose up -d --build.                              *)
PullFailureShortCircuits ==
  \A r \in Reqs :
    \A i \in Issued(r, "git_pull") :
      Failed(reqs[r].cmds[i]) =>
        /\ ResponseIs(r, "Git Pull Failed")
        /\ Issued(r, "compose_build") = {}

(* Both kinds of pull failure have happened: one request's pull could not *)
(* be spawned and another's exited non-zero.                               *)
PullFailureWitness ==
  \E r1, r2 \in Reqs :
    /\ Finished(r1) /\ Finished(r2)
    /\ \E i \in Issued(r1, "git_pull") : reqs[r1].cmds[i].status = "spawn_error"
    /\ \E i \in Issued(r2, "git_pull") : reqs[r2].cmds[i].status = "exit_fail"

(* C2: a handled request naming a project that is no key of the config    *)
(* returns "Project not found in config" and issues no command, whatever  *)
(* its type and credentials; one naming a configured project runs its     *)
(* strategy on the path the config maps the name to.                      *)
LookupDecidesPath ==
  \A r \in Reqs :
    Handled(r) =>
      IF Registered(r)
        THEN /\ reqs[r].path = Some(state.config[BodyOf(r).project[1]])
             /\ ~ResponseIs(r, "Project not found in config")
             /\ \A i \in 1..Len(reqs[r].cmds) :
                  reqs[r].cmds[i].path \in
                    {None, Some(state.config[BodyOf(r).project[1]])}
        ELSE /\ ResponseIs(r, "Project not found in config")
             /\ reqs[r].cmds = <<>>
             /\ reqs[r].path = None

(* An unknown project with full credentials and a valid type was turned   *)
(* away while a request for "shop" runs compose in shop's path.            *)
LookupWitness ==
  \E r1, r2 \in Reqs :
    /\ ResponseIs(r1, "Project not found in config")
    /\ BodyOf(r1).type = Some("repo")
    /\ BodyOf(r1).user # None /\ BodyOf(r1).githubtoken # None
    /\ reqs[r2].pc \in {"build", "up"}
    /\ BodyOf(r2).project = Some("shop")
    /\ reqs[r2].cmds[Len(reqs[r2].cmds)].path = Some("/srv/shop")

(* The user (token) is absent from the request and from the environment. *)
UserAbsent(r) == BodyOf(r).user = None /\ env.DOCKER_USER = None

TokenAbsent(r) == BodyOf(r).githubtoken = None /\ env.DOCKER_TOKEN = None

(* C3: in both strategies, a request for a configured project whose user  *)
(* or token is absent from the request and from the environment returns   *)
(* the strategy's missing-credentials message and issues no command.      *)
MissingCredentialsRunNothing ==
  \A r \in Reqs :
    (Handled(r) /\ Registered(r) /\ (UserAbsent(r) \/ TokenAbsent(r))) =>
      /\ BodyOf(r).type = Some("repo") => ResponseIs(r, "Missing Git Credentials")
      /\ BodyOf(r).type = Some("image") => ResponseIs(r, "Missing Docker Credentials")
      /\ reqs[r].cmds = <<>>

(* A repo request lacking only the user and an image request lacking only *)
(* the token were both turned away.                                        *)
MissingCredentialsWitness ==
  \E r1, r2 \in Reqs :
    /\ ResponseIs(r1, "Missing Git Credentials")
    /\ UserAbsent(r1) /\ ~TokenAbsent(r1)
    /\ ResponseIs(r2, "Missing Docker Credentials")
    /\ TokenAbsent(r2) /\ ~UserAbsent(r2)

(* C4: each of user and token is resolved on its own, the request's value *)
(* first: the command that carries the credentials carries the request's  *)
(* value of a field the request supplies, and the environment default of  *)
(* a field it omits.                                                       *)
CredentialPrecedence ==
  \A r \in Reqs :
    \A i \in Issued(r, "git_pull") \cup Issued(r, "docker_login") :
      LET c == reqs[r].cmds[i]
          b == BodyOf(r)
      IN  /\ b.user # None => c.user = b.user
          /\ b.user = None => c.user = env.DOCKER_USER
          /\ b.githubtoken # None => c.token = b.githubtoken
          /\ b.githubtoken = None => c.token = env.DOCKER_TOKEN
          /\ reqs[r].u = c.user /\ reqs[r].t = c.token

(* With both defaults set, a request supplying only the user pulled with  *)
(* (its user, the default token), and one supplying both used its own.     *)
CredentialPrecedenceWitness ==
  /\ env.DOCKER_USER = Some("envuser") /\ env.DOCKER_TOKEN = Some("envtok")
  /\ \E r1, r2 \in Reqs :
       /\ Handled(r1) /\ Handled(r2)
       /\ BodyOf(r1).user = Some("alice") /\ BodyOf(r1).githubtoken = None
       /\ \E i \in Issued(r1, "git_pull") :
            /\ reqs[r1].cmds[i].user = Some("alice")
            /\ reqs[r1].cmds[i].token = Some("envtok")
       /\ BodyOf(r2).user = Some("alice") /\ BodyOf(r2).githubtoken = Some("tok")
       /\ \E i \in Issued(r2, "docker_login") :
            /\ reqs[r2].cmds[i].user = Some("alice")
            /\ reqs[r2].cmds[i].token = Some("tok")

Recognized(r) == BodyOf(r).type \in {Some("repo"), Some("image")}

(* C5, as claimed: a handled request whose type is neither "repo" nor     *)
(* "image" returns "Invalid Type" whether or not its project is           *)
(* configured, and issues no command.                                     *)
TypeValidatedBeforeLookup ==
  \A r \in Reqs :
    (Handled(r) /\ ~Recognized(r)) =>
      ResponseIs(r, "Invalid Type") /\ reqs[r].cmds = <<>>

(* C5, amended: the project is looked up before the type is matched: a    *)
(* handled request with an unrecognized type returns "Invalid Type" when  *)
(* its project is configured and "Project not found in config" when it is *)
(* not, and issues no command either way.                                 *)
LookupBeforeTypeCheck ==
  \A r \in Reqs :
    (Handled(r) /\ ~Recognized(r)) =>
      /\ reqs[r].cmds = <<>>
      /\ Registered(r) => ResponseIs(r, "Invalid Type")
      /\ ~Registered(r) => ResponseIs(r, "Project not found in config")

(* Two requests of type "rollback": the one for a configured project got  *)
(* "Invalid Type", the one for an unknown project "Project not found".    *)
InvalidTypeWitness ==
  \E r1, r2 \in Reqs :
    /\ ResponseIs(r1, "Invalid Type") /\ Registered(r1)
    /\ BodyOf(r1).type = Some("rollback")
    /\ ResponseIs(r2, "Project not found in config")
    /\ BodyOf(r2).type = Some("rollback")

(* C6: in the image strategy the compose pull is issued only as the second *)
(* command, after a docker login that exited successfully; if the compose  *)
(* pull then exits non-zero the request returns "Docker Compose pull/up   *)
(* failed" having issued docker login exactly once; if the login fails the *)
(* request returns "Docker Login Failed" and issues no compose command.   *)
LoginBeforeComposePull ==
  \A r \in Reqs :
    /\ \A i \in Issued(r, "compose_pull") :
         /\ i = 2
         /\ reqs[r].cmds[1].op = "docker_login"
         /\ reqs[r].cmds[1].status = "exit_ok"
         /\ reqs[r].cmds[i].status = "exit_fail" =>
              /\ ResponseIs(r, "Docker Compose pull/up failed")
              /\ Cardinality(Issued(r, "docker_login")) = 1
    /\ \A i \in Issued(r, "docker_login") :
         Failed(reqs[r].cmds[i]) =>
           /\ ResponseIs(r, "Docker Login Failed")
           /\ Issued(r, "compose_pull") = {}

(* One request's login succeeded and its compose pull exited non-zero;    *)
(* another's login failed.                                                 *)
LoginBeforeComposePullWitness ==
  \E r1, r2 \in Reqs :
    /\ ResponseIs(r1, "Docker Compose pull/up failed")
    /\ \E i \in Issued(r1, "compose_pull") : reqs[r1].cmds[i].status = "exit_fail"
    /\ ResponseIs(r2, "Docker Login Failed")
    /\ \E i \in Issued(r2, "docker_login") : reqs[r2].cmds[i].status = "exit_fail"

(* C7: nothing is retried: a request issues each of its commands at most  *)
(* once, and a command that failed (spawn error or non-zero exit) is the  *)
(* last command of its request, which has returned.                       *)
NoRetryAfterFailure ==
  \A r \in Reqs :
    /\ \A op \in CmdOps(r) : Cardinality(Issued(r, op)) = 1
    /\ \A i \in 1..Len(reqs[r].cmds) :
         Failed(reqs[r].cmds[i]) => i = Len(reqs[r].cmds) /\ Finished(r)

(* One request failed at its first command and another at its second. *)
NoRetryWitness ==
  \E r1, r2 \in Reqs :
    /\ Finished(r1) /\ Len(reqs[r1].cmds) = 1 /\ Failed(reqs[r1].cmds[1])
    /\ Finished(r2) /\ Len(reqs[r2].cmds) = 2 /\ Failed(reqs[r2].cmds[2])

(* The last command of request r. *)
LastCmd(r) == reqs[r].cmds[Len(reqs[r].cmds)]

(* r1 ended on a command that could not be spawned and r2 on the same     *)
(* command exiting non-zero.                                               *)
SpawnErrorVersusExit(r1, r2) ==
  /\ Finished(r1) /\ Finished(r2)
  /\ reqs[r1].cmds # <<>> /\ reqs[r2].cmds # <<>>
  /\ LastCmd(r1).op = LastCmd(r2).op
  /\ LastCmd(r1).status = "spawn_error"
  /\ LastCmd(r2).status = "exit_fail"

(* C8, as claimed: at every step, a command that could not be spawned     *)
(* gives a response different from that of the command exiting non-zero.  *)
SpawnErrorDistinctAtEveryStep ==
  \A r1, r2 \in Reqs :
    SpawnErrorVersusExit(r1, r2) => reqs[r1].response # reqs[r2].response

(* C8, amended: only the compose step tells the two apart ("Command       *)
(* execution error" against the strategy's compose failure message); at   *)
(* the pull and login steps a spawn failure and a non-zero exit give the  *)
(* same response.                                                          *)
SpawnErrorDistinctAtComposeOnly ==
  \A r1, r2 \in Reqs :
    SpawnErrorVersusExit(r1, r2) =>
      IF LastCmd(r1).op \in {"compose_build", "compose_pull"}
        THEN /\ reqs[r1].response # reqs[r2].response
             /\ ResponseIs(r1, "Command execution error")
        ELSE reqs[r1].response = reqs[r2].response

(* The compose build could not be spawned for one request and exited      *)
(* non-zero for another.                                                   *)
SpawnErrorWitness ==
  \E r1, r2 \in Reqs :
    /\ SpawnErrorVersusExit(r1, r2)
    /\ LastCmd(r1).op = "compose_build"

(* Request r's task resumes from its first command and starts compose. *)
StartsCompose(r) ==
  /\ PullExit(r) \/ LoginExit(r)
  /\ reqs'[r].pc \in {"build", "up"}

(* C9: nothing orders or excludes requests: a task waiting on its pull or *)
(* login can go on to start compose whatever the other tasks are doing,   *)
(* and a request can arrive whatever the other tasks are doing.           *)
NoMutualExclusion ==
  \A r \in Reqs :
    /\ reqs[r].pc \in {"pull", "login"} => ENABLED StartsCompose(r)
    /\ reqs[r].pc = "idle" => ENABLED Request(r)

(* Two requests for the same project run compose in its path at once. *)
ConcurrentComposeWitness ==
  \E r1, r2 \in Reqs :
    /\ r1 # r2
    /\ reqs[r1].pc = "build" /\ reqs[r2].pc \in {"build", "up"}
    /\ BodyOf(r1).project = BodyOf(r2).project
    /\ LastCmd(r1).path = LastCmd(r2).path
    /\ LastCmd(r1).status = "running" /\ LastCmd(r2).status = "running"

(* The body carries nothing but the fields named. *)
OmitsOptionals(b) == b.user = None /\ b.githubtoken = None /\ b.registry = None

(* C10, as claimed: a body that carries project and a recognized type and *)
(* omits every other field is accepted and handed to handle_deploy.       *)
ProjectAndTypeSuffice ==
  \A r \in Reqs :
    (/\ reqs[r].pc # "idle"
     /\ BodyOf(r).project # None /\ Recognized(r)
     /\ BodyOf(r).repository = None /\ OmitsOptionals(BodyOf(r))) => Handled(r)

(* C10, amended: the required fields are project, repository and type: a  *)
(* body is accepted and handed to handle_deploy exactly when it carries   *)
(* these three, also when it omits user, githubtoken and registry; a body *)
(* that omits repository is rejected before handle_deploy runs.           *)
RequiredFields ==
  \A r \in Reqs :
    reqs[r].pc # "idle" =>
      LET b == BodyOf(r)
      IN  /\ Handled(r) <=> (b.project # None /\ b.repository # None /\ b.type # None)
          /\ ~Handled(r) => reqs[r].response = None /\ reqs[r].cmds = <<>>

(* A body with project, repository and a recognized type and nothing else *)
(* reached the lookup (its path is set), and one without repository was   *)
(* rejected.                                                               *)
RequiredFieldsWitness ==
  \E r1, r2 \in Reqs :
    /\ Handled(r1) /\ OmitsOptionals(BodyOf(r1)) /\ Recognized(r1)
    /\ reqs[r1].path # None
    /\ reqs[r2].pc = "rejected"
    /\ BodyOf(r2).project # None /\ Recognized(r2) /\ BodyOf(r2).repository = None

(* C11: every external command is bounded by a timeout whose expiry ends *)
(* the step, so a dispatched request is never stuck: a task whose command *)
(* never completes can still take a step and return an outcome.           *)
TimeoutBoundsEveryCommand ==
  \A r \in Reqs : reqs[r].pc = "hung" => ENABLED TaskStep(r)

(* The values that are part of the text sh parses for command c. *)
ShellParsed(c) == {Argv(c)[3][k] : k \in 1..Len(Argv(c)[3])}

(* C12: in every command the program issues, the user and the token are  *)
(* not part of the text a shell parses.                                   *)
SecretsNeverInShellText ==
  \A r \in Reqs :
    \A i \in 1..Len(reqs[r].cmds) :
      LET c == reqs[r].cmds[i]
      IN  /\ Argv(c)[1] = "sh" =>
               /\ reqs[r].u # None => reqs[r].u[1] \notin ShellParsed(c)
               /\ reqs[r].t # None => reqs[r].t[1] \notin ShellParsed(c)

SuccessMessages ==
  {"Success: Repo Pulled and Containers Rebuilt",
   "Success: Images Pulled and Containers Restarted"}

Succeeded(r) == Finished(r) /\ reqs[r].response \in {Some(m) : m \in SuccessMessages}

(* C13: the registry is read-only after startup: in every reachable      *)
(* state, whatever requests were handled and however they ended, the      *)
(* lookup of every name gives what it gave when main built the state.     *)
RegistryReadOnly ==
  /\ DOMAIN state.config = DOMAIN ConfigFile
  /\ \A n \in ProjectNames : Get(state.config, n) = Get(ConfigFile, n)

(* A request for an unknown project was turned away and a request for a  *)
(* configured one succeeded.                                              *)
RegistryReadOnlyWitness ==
  \E r1, r2 \in Reqs :
    /\ ResponseIs(r1, "Project not found in config")
    /\ BodyOf(r1).project = Some("ghost")
    /\ Succeeded(r2)

(* The command lines request r has run, in order. *)
CommandLines(r) == [i \in 1..Len(reqs[r].cmds) |-> Argv(reqs[r].cmds[i])]

(* How the commands of request r went, in order. *)
StatusesOf(r) == [i \in 1..Len(reqs[r].cmds) |-> reqs[r].cmds[i].status]

(* Request r is well formed (configured project, recognized type, user   *)
(* and token available), has returned, and no command it issued failed.   *)
RanClean(r) ==
  /\ Finished(r) /\ Registered(r) /\ Recognized(r)
  /\ ~UserAbsent(r) /\ ~TokenAbsent(r)
  /\ \A i \in 1..Len(reqs[r].cmds) : ~Failed(reqs[r].cmds[i])

(* C14: the same well-formed request issued twice for a configured       *)
(* project, its commands succeeding both times, succeeds both times with  *)
(* the same response and the same sequence of commands.                   *)
SameRequestSameDeployment ==
  \A r1, r2 \in Reqs :
    (r1 # r2 /\ RanClean(r1) /\ RanClean(r2) /\ BodyOf(r1) = BodyOf(r2)) =>
      /\ Succeeded(r1) /\ Succeeded(r2)
      /\ reqs[r1].response = reqs[r2].response
      /\ CommandLines(r1) = CommandLines(r2)
      /\ StatusesOf(r1) = StatusesOf(r2)

(* The same repo request was handled twice and succeeded twice. *)
SameRequestWitness ==
  \E r1, r2 \in Reqs :
    /\ r1 # r2 /\ RanClean(r1) /\ RanClean(r2) /\ BodyOf(r1) = BodyOf(r2)
    /\ ResponseIs(r1, "Success: Repo Pulled and Containers Rebuilt")
    /\ ResponseIs(r2, "Success: Repo Pulled and Containers Rebuilt")

(* C15: the docker login of a request that omits registry targets         *)
(* "ghcr.io", that of a request that supplies registry targets the value  *)
(* supplied, and omitting registry does not by itself fail a request: an  *)
(* image request with a configured project, a user and a token issues    *)
(* its login either way.                                                  *)
RegistryDefaultsToGhcr ==
  \A r \in Reqs :
    /\ \A i \in Issued(r, "docker_login") :
         LET c == reqs[r].cmds[i]
         IN  /\ BodyOf(r).registry = None => c.registry = Some("ghcr.io")
             /\ BodyOf(r).registry # None => c.registry = BodyOf(r).registry
             /\ ShellScript(c)[4] = c.registry[1]
    /\ (/\ Handled(r) /\ Registered(r) /\ BodyOf(r).type = Some("image")
        /\ ~UserAbsent(r) /\ ~TokenAbsent(r)) => Issued(r, "docker_login") # {}

(* One login went to the default host for a request without registry and *)
(* another to the host its request named.                                 *)
RegistryDefaultWitness ==
  \E r1, r2 \in Reqs :
    /\ Handled(r1) /\ Handled(r2)
    /\ BodyOf(r1).registry = None
    /\ \E i \in Issued(r1, "docker_login") : reqs[r1].cmds[i].registry = Some("ghcr.io")
    /\ BodyOf(r2).registry = Some("docker.io")
    /\ \E i \in Issued(r2, "docker_login") : reqs[r2].cmds[i].registry = Some("docker.io")

(* C16: the steps of one request run one after the other: a command of   *)
(* the request that is running is its last command, and every command     *)
(* before the last has completed (successfully), so the second command    *)
(* never starts before the first has completed and at most one command of *)
(* a request runs at a time.                                              *)
StepsRunSequentially ==
  \A r \in Reqs :
    /\ \A i \in 1..Len(reqs[r].cmds) :
         /\ reqs[r].cmds[i].status = "running" =>
              i = Len(reqs[r].cmds) /\ reqs[r].pc \in {"pull", "build", "login", "up", "hung"}
         /\ i < Len(reqs[r].cmds) => reqs[r].cmds[i].status = "exit_ok"
    /\ Cardinality({i \in 1..Len(reqs[r].cmds) : reqs[r].cmds[i].status = "running"}) <= 1
    /\ reqs[r].pc \in {"pull", "build", "login", "up"} =>
         reqs[r].cmds[Len(reqs[r].cmds)].status = "running"

(* A request runs compose after its pull has exited, and another after   *)
(* its login has exited.                                                  *)
StepsRunSequentiallyWitness ==
  \E r1, r2 \in Reqs :
    /\ reqs[r1].pc = "build" /\ reqs[r1].cmds[1].status = "exit_ok"
    /\ reqs[r1].cmds[2].status = "running"
    /\ reqs[r2].pc = "up" /\ reqs[r2].cmds[1].status = "exit_ok"
    /\ reqs[r2].cmds[2].status = "running"

(* Every command request r has issued carries r's own resolved values:   *)
(* the path of r's project, the user and token resolved from r's body    *)
(* and the environment, and the registry resolved from r's body.          *)
OwnValues(r) ==
  /\ reqs[r].u \in {None, BodyOf(r).user, env.DOCKER_USER}
  /\ reqs[r].t \in {None, BodyOf(r).githubtoken, env.DOCKER_TOKEN}
  /\ \A i \in 1..Len(reqs[r].cmds) :
       LET c == reqs[r].cmds[i]
       IN  /\ c.path \in {None, Get(state.config, BodyOf(r).project[1])}
           /\ c.user \in {None, reqs[r].u}
           /\ c.token \in {None, reqs[r].t}
           /\ c.registry \in {None, BodyOf(r).registry, Some("ghcr.io")}

(* C17: requests are isolated from one another: every step is the step   *)
(* of one request, it leaves every other request's task (its data, its    *)
(* commands, its position and its outcome) and the shared state as they   *)
(* were, whether it fails or not, and the commands of the stepping        *)
(* request carry that request's own credentials, registry and path; and   *)
(* in every state a request not yet received can be received, whatever    *)
(* became of the others.                                                   *)
RequestsIsolated ==
  /\ [](\A r \in Reqs : reqs[r].pc = "idle" => ENABLED Request(r))
  /\ [][\E r \in Reqs :
          /\ \A o \in Reqs \ {r} : reqs'[o] = reqs[o]
          /\ state' = state /\ env' = env
          /\ Handled(r)' => OwnValues(r)']_vars

(* While one request's deployment failed, another request for another    *)
(* project, with other credentials, succeeded.                            *)
RequestsIsolatedWitness ==
  \E r1, r2 \in Reqs :
    /\ ResponseIs(r1, "Docker Compose pull/up failed")
    /\ Succeeded(r2)
    /\ BodyOf(r1).project # BodyOf(r2).project
    /\ reqs[r1].u # reqs[r2].u

(* The commands of request r, by name and in order. *)
OpsOf(r) == [i \in 1..Len(reqs[r].cmds) |-> reqs[r].cmds[i].op]

(* C18: a request returns a Success message if and only if it named a    *)
(* configured project with a recognized type, its user and token          *)
(* resolved, and both commands of its strategy were issued in order and   *)
(* each exited successfully; the message is that of its strategy.         *)
SuccessIffBothStepsSucceeded ==
  \A r \in Reqs :
    Handled(r) =>
      /\ Succeeded(r) <=>
           /\ Registered(r) /\ Recognized(r)
           /\ ~UserAbsent(r) /\ ~TokenAbsent(r)
           /\ OpsOf(r) = IF BodyOf(r).type = Some("repo")
                           THEN <<"git_pull", "compose_build">>
                           ELSE <<"docker_login", "compose_pull">>
           /\ StatusesOf(r) = <<"exit_ok", "exit_ok">>
      /\ Succeeded(r) =>
           reqs[r].response =
             IF BodyOf(r).type = Some("repo")
               THEN Some("Success: Repo Pulled and Containers Rebuilt")
               ELSE Some("Success: Images Pulled and Containers Restarted")

(* A repo request and an image request both succeeded after two commands. *)
SuccessWitness ==
  \E r1, r2 \in Reqs :
    /\ ResponseIs(r1, "Success: Repo Pulled and Containers Rebuilt")
    /\ StatusesOf(r1) = <<"exit_ok", "exit_ok">>
    /\ ResponseIs(r2, "Success: Images Pulled and Containers Restarted")
    /\ StatusesOf(r2) = <<"exit_ok", "exit_ok">>

(* The constant messages handle_deploy can return. *)
Messages ==
  SuccessMessages \cup
  {"Project not found in config", "Invalid Type",
   "Missing Git Credentials", "Git Pull Failed",
   "Git pull success, but Compose build/up failed", "Command execution error",
   "Missing Docker Credentials", "Docker Login Failed",
   "Docker Compose pull/up failed"}

(* r1 and r2 agree on whether the project is configured, on the type, on *)
(* whether user and token resolve, and on how their commands went.        *)
SameShape(r1, r2) ==
  /\ Registered(r1) <=> Registered(r2)
  /\ BodyOf(r1).type = BodyOf(r2).type
  /\ (UserAbsent(r1) \/ TokenAbsent(r1)) <=> (UserAbsent(r2) \/ TokenAbsent(r2))
  /\ StatusesOf(r1) = StatusesOf(r2)

(* C19: the response is one of a fixed set of constant messages and a    *)
(* function of whether the project is configured, the type, whether user  *)
(* and token resolve and how the commands went: two requests that agree   *)
(* on these get the same response, whatever their credentials, registry   *)
(* and the commands' standard error.                                      *)
ResponseIndependentOfSecrets ==
  \A r1, r2 \in Reqs :
    /\ Finished(r1) => reqs[r1].response \in {Some(m) : m \in Messages}
    /\ (Finished(r1) /\ Finished(r2) /\ SameShape(r1, r2)) =>
         reqs[r1].response = reqs[r2].response

(* Two requests whose compose run failed got the same response although  *)
(* they differ in user, token, registry and in what compose printed.      *)
ResponseIndependentWitness ==
  \E r1, r2 \in Reqs :
    /\ Finished(r1) /\ Finished(r2) /\ SameShape(r1, r2)
    /\ StatusesOf(r1) = <<"exit_ok", "exit_fail">>
    /\ reqs[r1].u # reqs[r2].u /\ reqs[r1].t # reqs[r2].t
    /\ BodyOf(r1).registry # BodyOf(r2).registry
    /\ reqs[r1].cmds[2].stderr # reqs[r2].cmds[2].stderr
    /\ reqs[r1].response = reqs[r2].response

====
